---- MODULE Spec2Model ----
(***************************************************************************)
(* Layer-tree traversal and export pipeline of psd-to-layers.              *)
(*                                                                         *)
(* Two implementations live in the repository and both are modelled:      *)
(*   impl = "cli" : the psd.js based script (src/unnamed/part_000),        *)
(*                  extract -> processNode -> exportLayer;                 *)
(*   impl = "lib" : the ag-psd based class (src/src/psd-extractor.ts),     *)
(*                  extractLayers -> flattenLayers -> per-layer loop.      *)
(* A document is a sequence of nodes; node 0 is the root.  Strings are     *)
(* sequences of one-character strings so that sanitizeFilename can be      *)
(* computed character by character.                                        *)
(***************************************************************************)
EXTENDS Integers, Sequences, FiniteSets, TLC

VARIABLES
    impl,           \* "cli" | "lib" | "san": which entry point runs
    window,         \* lib: typeof window !== "undefined" (browser build)
    psd,            \* the parsed document: sequence of node records
    status,         \* "init" | "running" | "done" | "fatal"
    thrown,         \* an error has been surfaced to the caller
    stack,          \* cli: call frames of processNode
    visibleLayers,  \* lib: flattenLayers(...).filter(!hidden)
    i,              \* lib: number of loop iterations started
    unit,           \* per node: state of its export (exportLayer / loop body);
                    \* fileName is the resolved name (cli fileName, lib layerName)
    layerCount,     \* cli: this.layerCount
    logs,           \* number of log lines of each kind
    results,        \* lib: the LayerData list being returned
    progress,       \* lib: progress events emitted so far
    input,          \* sanitizer check: the string handed to sanitizeFilename
    output          \* sanitizer check: the successive results of sanitizeFilename

vars == <<impl, window, psd, status, thrown, stack, visibleLayers, i, unit,
          layerCount, logs, results, progress, input, output>>

(***************************************************************************)
(* Bounds                                                                  *)
(***************************************************************************)
MaxNodes == 3
MaxLen == 4

(***************************************************************************)
(* sanitizeFilename                                                        *)
(***************************************************************************)
Forbidden == {"<", ">", ":", "\"", "/", "\\", "|", "?", "*"}

Whitespace == {" ", "\t", "\n", "\r"}

\* .replace(/[<>:"/\\|?*]/g, "_")
ReplaceForbidden(s) ==
    [k \in 1..Len(s) |-> IF s[k] \in Forbidden THEN "_" ELSE s[k]]

RECURSIVE DropRun(_, _)
DropRun(s, S) ==
    IF s # <<>> /\ Head(s) \in S THEN DropRun(Tail(s), S) ELSE s

\* every maximal run of characters of S becomes one "_"
RECURSIVE ReplaceRuns(_, _)
ReplaceRuns(s, S) ==
    IF s = <<>> THEN <<>>
    ELSE IF Head(s) \in S
         THEN <<"_">> \o ReplaceRuns(DropRun(Tail(s), S), S)
         ELSE <<Head(s)>> \o ReplaceRuns(Tail(s), S)

\* .replace(/\s+/g, "_")
ReplaceSpaces(s) == ReplaceRuns(s, Whitespace)

\* the collapse step left out
CollapseUnderscoresSkipped(s) == s

\* .replace(/_{2,}/g, "_")
CollapseUnderscores(s) == ReplaceRuns(s, {"_"})

\* .replace(/^_|_$/g, "")
TrimUnderscores(s) ==
    LET t == IF s # <<>> /\ Head(s) = "_" THEN Tail(s) ELSE s
    IN  IF t # <<>> /\ t[Len(t)] = "_" THEN SubSeq(t, 1, Len(t) - 1) ELSE t

sanitizeFilename(filename) ==
    TrimUnderscores(CollapseUnderscores(ReplaceSpaces(ReplaceForbidden(filename))))

(***************************************************************************)
(* The document tree                                                       *)
(***************************************************************************)
NameSet == { <<>>, <<" ", "a", "/", "b", "*">> }

NodeRec == [parent : 0..MaxNodes, kind : {"group", "layer"},
            hidden : BOOLEAN, name : NameSet]

\* a is m or one of its ancestors (0 is the root)
RECURSIVE OnPath(_, _, _)
OnPath(d, a, m) ==
    a = m \/ (m # 0 /\ OnPath(d, a, d[m].parent))

\* every non-root node has one parent, which is the root or a group; the
\* nodes are numbered in the order the document stores them (a group, then
\* what is in it, then its next sibling), so that siblings are ordered by
\* their index and every ordered tree has exactly one numbering
WellFormed(d) ==
    \A k \in 1..Len(d) :
        /\ d[k].parent < k
        /\ d[k].parent # 0 => d[d[k].parent].kind = "group"
        /\ k > 1 => OnPath(d, d[k].parent, k - 1)

Documents ==
    UNION { { d \in [1..len -> NodeRec] : WellFormed(d) } : len \in 0..MaxNodes }

N == Len(psd)

IsGroup(m) == psd[m].kind = "group"

IsLayer(m) == psd[m].kind = "layer"

RECURSIVE SortedSeq(_)
SortedSeq(S) ==
    IF S = {} THEN <<>>
    ELSE LET lo == CHOOSE x \in S : \A y \in S : x <= y
         IN  <<lo>> \o SortedSeq(S \ {lo})

\* node.children() / layer.children, in stored order
Children(p) == SortedSeq({k \in 1..N : psd[k].parent = p})

RECURSIVE Ancestors(_)
Ancestors(m) ==
    IF psd[m].parent = 0 THEN <<>>
    ELSE Append(Ancestors(psd[m].parent), psd[m].parent)


(***************************************************************************)
(* Shared bookkeeping                                                      *)
(***************************************************************************)
LogKinds == {"hidden", "skip", "pngError", "altOk", "altFail", "error",
             "fatal", "summary"}

Log(kind) == [logs EXCEPT ![kind] = @ + 1]

\* an export that has been started and has not reached its outcome
Suspended == {"stream", "write", "alt", "blob", "arrayBuffer", "stuck"}

Pending == {m \in 1..N : unit[m].pc \in Suspended}

\* the missing-await variant: the loop goes on whatever is in flight
NoPendingUnawaited == TRUE

\* `await`: the caller resumes only when the awaited export has settled
NoPending == Pending = {}

\* no export has started
NewUnits(d) == [m \in 1..Len(d) |-> [pc |-> "new", len |-> 0, fileName |-> <<>>]]

Finish(u, m) == [u EXCEPT ![m].pc = "done", ![m].len = 0]

\* the state after construction, for a document the loader will accept
InitOf(which) ==
    /\ impl = which
    /\ window \in BOOLEAN
    /\ which = "cli" => window = FALSE
    /\ psd \in Documents
    /\ status = "init"
    /\ thrown = FALSE
    /\ stack = <<>>
    /\ visibleLayers = <<>>
    /\ i = 0
    /\ unit = NewUnits(psd)
    /\ layerCount = 0
    /\ logs = [k \in LogKinds |-> 0]
    /\ results = <<>>
    /\ progress = <<>>
    /\ input = <<>>
    /\ output = <<>>

InitCli == InitOf("cli")

InitLib == InitOf("lib")

(***************************************************************************)
(* cli: extract, processNode, exportLayer (src/unnamed/part_000)           *)
(***************************************************************************)
\* the error is logged and the traversal runs all the same
ExtractFailSwallowed ==
    /\ impl = "cli" /\ status = "init"
    /\ status' = "running"
    /\ stack' = <<[node |-> 0, idx |-> 1, path |-> <<>>]>>
    /\ logs' = Log("fatal")
    /\ UNCHANGED <<impl, window, psd, thrown, visibleLayers, i, unit,
                   layerCount, results, progress, input, output>>

\* the file is missing, mkdir rejects, or PSD.fromFile / parse throws
ExtractFail ==
    /\ impl = "cli" /\ status = "init"
    /\ status' = "fatal"
    /\ thrown' = TRUE
    /\ logs' = Log("fatal")
    /\ UNCHANGED <<impl, window, psd, stack, visibleLayers, i, unit,
                   layerCount, results, progress, input, output>>

\* the document parses: processNode(psd.tree(), "")
ExtractOk ==
    /\ impl = "cli" /\ status = "init"
    /\ status' = "running"
    /\ stack' = <<[node |-> 0, idx |-> 1, path |-> <<>>]>>
    /\ UNCHANGED <<impl, window, psd, thrown, visibleLayers, i, unit,
                   layerCount, logs, results, progress, input, output>>

\* the separator is written even in front of the first component
JoinPathAlways(parentPath, name) == parentPath \o <<"_">> \o name

\* parentPath ? `${parentPath}_${name}` : name
JoinPath(parentPath, name) ==
    IF parentPath # <<>> THEN parentPath \o <<"_">> \o name ELSE name

\* every layer is exported
VisibleAlways(m) == TRUE

\* layer.visible
Visible(m) == ~psd[m].hidden

Top == stack[Len(stack)]

Advance == [stack EXCEPT ![Len(stack)].idx = @ + 1]

\* the catch handler rethrows: the run ends with the layer's error
CatchPngRethrow(u, m) ==
    /\ unit' = Finish(u, m)
    /\ status' = "fatal"
    /\ thrown' = TRUE
    /\ logs' = Log("pngError")

\* catch (pngError): log, then try layer.saveAsPng if it is a function
CatchPng(u, m) ==
    /\ logs' = Log("pngError")
    /\ \E hasAlt \in BOOLEAN :
          unit' = IF hasAlt THEN [u EXCEPT ![m].pc = "alt", ![m].len = 0]
                  ELSE Finish(u, m)
    /\ UNCHANGED <<status, thrown>>

\* a for loop of processNode is over: return to the caller; the return of
\* the root call is followed by the completion log
ProcessReturn ==
    /\ impl = "cli" /\ status = "running" /\ NoPending
    /\ stack # <<>>
    /\ Top.idx > Len(Children(Top.node))
    /\ stack' = SubSeq(stack, 1, Len(stack) - 1)
    /\ IF Len(stack) = 1
       THEN status' = "done" /\ logs' = Log("summary")
       ELSE UNCHANGED <<status, logs>>
    /\ UNCHANGED <<impl, window, psd, thrown, visibleLayers, i, unit,
                   layerCount, results, progress, input, output>>

\* processNode on a group child: the children get the group's path
ProcessGroup ==
    /\ impl = "cli" /\ status = "running" /\ NoPending
    /\ stack # <<>>
    /\ Top.idx <= Len(Children(Top.node))
    /\ LET c == Children(Top.node)[Top.idx]
           groupPath == JoinPath(Top.path, sanitizeFilename(psd[c].name))
       IN  /\ IsGroup(c)
           /\ stack' = Append(Advance, [node |-> c, idx |-> 1, path |-> groupPath])
    /\ UNCHANGED <<impl, window, psd, status, thrown, visibleLayers, i, unit,
                   layerCount, logs, results, progress, input, output>>

\* processNode on a layer child, up to the first await of exportLayer
ExportLayer ==
    /\ impl = "cli" /\ status = "running" /\ NoPending
    /\ stack # <<>>
    /\ Top.idx <= Len(Children(Top.node))
    /\ LET c == Children(Top.node)[Top.idx]
           fileName == JoinPath(Top.path, sanitizeFilename(psd[c].name))
           named == [unit EXCEPT ![c].fileName = fileName]
       IN  /\ IsLayer(c)
           /\ stack' = Advance
           /\ \/ /\ ~Visible(c)
                 /\ unit' = [unit EXCEPT ![c].pc = "skipped"]
                 /\ logs' = Log("hidden")
                 /\ UNCHANGED <<status, thrown>>
              \/ /\ Visible(c)
                 \* toPng returned null, or something that is no stream
                 /\ unit' = [named EXCEPT ![c].pc = "done"]
                 /\ logs' = Log("skip")
                 /\ UNCHANGED <<status, thrown>>
              \/ /\ Visible(c)
                 \* a png with pack(), or a stream with pipe
                 /\ unit' = [named EXCEPT ![c].pc = "stream"]
                 /\ UNCHANGED <<status, thrown, logs>>
              \/ /\ Visible(c)
                 \* a Buffer of any length
                 /\ \E len \in {0, 1} :
                       unit' = [named EXCEPT ![c].pc = "write", ![c].len = len]
                 /\ UNCHANGED <<status, thrown, logs>>
              \/ /\ Visible(c)
                 \* toPng throws
                 /\ CatchPng(named, c)
    /\ UNCHANGED <<impl, window, psd, visibleLayers, i,
                   layerCount, results, progress, input, output>>

\* streamToBuffer resolves ("end") with the concatenated chunks
StreamEnd(m) ==
    /\ impl = "cli" /\ status = "running"
    /\ unit[m].pc = "stream"
    /\ \E len \in {0, 1} :
          IF len > 0
          THEN /\ unit' = [unit EXCEPT ![m].pc = "write", ![m].len = len]
               /\ UNCHANGED logs
          ELSE /\ unit' = Finish(unit, m)
               /\ logs' = Log("skip")
    /\ UNCHANGED <<impl, window, psd, status, thrown, stack, visibleLayers, i,
                   layerCount, results, progress, input, output>>

\* streamToBuffer rejects ("error")
StreamError(m) ==
    /\ impl = "cli" /\ status = "running"
    /\ unit[m].pc = "stream"
    /\ CatchPng(unit, m)
    /\ UNCHANGED <<impl, window, psd, stack, visibleLayers, i,
                   layerCount, results, progress, input, output>>

\* fs.writeFile resolves
WriteOk(m) ==
    /\ impl = "cli" /\ status = "running"
    /\ unit[m].pc = "write"
    /\ layerCount' = layerCount + 1
    /\ unit' = Finish(unit, m)
    /\ UNCHANGED <<impl, window, psd, status, thrown, stack, visibleLayers, i,
                   logs, results, progress, input, output>>

\* fs.writeFile rejects
WriteFail(m) ==
    /\ impl = "cli" /\ status = "running"
    /\ unit[m].pc = "write"
    /\ CatchPng(unit, m)
    /\ UNCHANGED <<impl, window, psd, stack, visibleLayers, i,
                   layerCount, results, progress, input, output>>

\* layer.saveAsPng resolves
AltOk(m) ==
    /\ impl = "cli" /\ status = "running"
    /\ unit[m].pc = "alt"
    /\ layerCount' = layerCount + 1
    /\ logs' = Log("altOk")
    /\ unit' = Finish(unit, m)
    /\ UNCHANGED <<impl, window, psd, status, thrown, stack, visibleLayers, i,
                   results, progress, input, output>>

\* layer.saveAsPng rejects: catch (altError)
AltFail(m) ==
    /\ impl = "cli" /\ status = "running"
    /\ unit[m].pc = "alt"
    /\ logs' = Log("altFail")
    /\ unit' = Finish(unit, m)
    /\ UNCHANGED <<impl, window, psd, status, thrown, stack, visibleLayers, i,
                   layerCount, results, progress, input, output>>

(***************************************************************************)
(* lib: extractLayers, flattenLayers (src/src/psd-extractor.ts)            *)
(***************************************************************************)
\* children are pushed in front of what was collected before them
RECURSIVE flattenLayersReversed(_)
flattenLayersReversed(layers) ==
    IF layers = <<>> THEN <<>>
    ELSE flattenLayersReversed(Tail(layers))
         \o (IF IsGroup(Head(layers))
             THEN flattenLayersReversed(Children(Head(layers))) ELSE <<>>)
         \o <<Head(layers)>>

\* push the node, then the flattened children, then go on with the siblings
RECURSIVE flattenLayers(_)
flattenLayers(layers) ==
    IF layers = <<>> THEN <<>>
    ELSE <<Head(layers)>>
         \o (IF IsGroup(Head(layers))
             THEN flattenLayers(Children(Head(layers))) ELSE <<>>)
         \o flattenLayers(Tail(layers))

RECURSIVE AnyAncestorHidden(_)
AnyAncestorHidden(m) ==
    psd[m].parent # 0
    /\ (psd[psd[m].parent].hidden \/ AnyAncestorHidden(psd[m].parent))

\* a hidden group hides what is under it
NotHiddenInherited(m) == ~psd[m].hidden /\ ~AnyAncestorHidden(m)

\* (layer) => !layer.hidden
NotHidden(m) == ~psd[m].hidden

Digits == <<"1", "2", "3", "4", "5", "6", "7", "8", "9">>

\* layer.name || `Layer_${i + 1}`
LayerName(m, k) ==
    IF psd[m].name # <<>> THEN psd[m].name
    ELSE <<"L", "a", "y", "e", "r", "_", Digits[k + 1]>>

\* readPsd throws: nothing in extractLayers catches it
ReadFail ==
    /\ impl = "lib" /\ status = "init"
    /\ status' = "fatal"
    /\ thrown' = TRUE
    /\ UNCHANGED <<impl, window, psd, stack, visibleLayers, i, unit,
                   layerCount, logs, results, progress, input, output>>

\* !psd.children: a document without a layer section returns []
ReadNoChildren ==
    /\ impl = "lib" /\ status = "init"
    /\ N = 0
    /\ status' = "done"
    /\ logs' = Log("summary")
    /\ UNCHANGED <<impl, window, psd, thrown, stack, visibleLayers, i, unit,
                   layerCount, results, progress, input, output>>

\* readPsd succeeds: flatten and filter
ReadOk ==
    /\ impl = "lib" /\ status = "init"
    /\ status' = "running"
    /\ visibleLayers' = SelectSeq(flattenLayers(Children(0)), NotHidden)
    /\ UNCHANGED <<impl, window, psd, thrown, stack, i, unit,
                   layerCount, logs, results, progress, input, output>>

\* results.push({ name: layerName, pngBuffer })
Push(m, layerName, len) ==
    Append(results, [layer |-> m, name |-> layerName, pngBuffer |-> len])

\* one iteration of the loop, up to its first await
Iterate ==
    /\ impl = "lib" /\ status = "running" /\ NoPending
    /\ i < Len(visibleLayers)
    /\ LET m == visibleLayers[i + 1]
           named == [unit EXCEPT ![m].fileName = LayerName(m, i)]
       IN  /\ i' = i + 1
           /\ progress' = Append(progress, <<i + 1, Len(visibleLayers)>>)
           /\ \/ \* no layer.canvas: groups and empty layers
                 /\ unit' = Finish(named, m)
                 /\ logs' = Log("skip")
                 /\ UNCHANGED results
              \/ \* Node.js: canvas.toBuffer("image/png") returns
                 /\ IsLayer(m) /\ ~window
                 /\ \E len \in {0, 1} : results' = Push(m, LayerName(m, i), len)
                 /\ unit' = Finish(named, m)
                 /\ UNCHANGED logs
              \/ \* toBuffer, or the toBlob call itself, throws
                 /\ IsLayer(m)
                 /\ unit' = Finish(named, m)
                 /\ logs' = Log("error")
                 /\ UNCHANGED results
              \/ \* browser: await the promise around canvas.toBlob
                 /\ IsLayer(m) /\ window
                 /\ unit' = [named EXCEPT ![m].pc = "blob"]
                 /\ UNCHANGED <<logs, results>>
    /\ UNCHANGED <<impl, window, psd, status, thrown, stack, visibleLayers,
                   layerCount, input, output>>

\* the toBlob callback runs: resolve only if it got a blob
BlobCallback(m) ==
    /\ impl = "lib" /\ status = "running"
    /\ unit[m].pc = "blob"
    /\ \E gotBlob \in BOOLEAN :
          unit' = [unit EXCEPT ![m].pc = IF gotBlob THEN "arrayBuffer" ELSE "stuck"]
    /\ UNCHANGED <<impl, window, psd, status, thrown, stack, visibleLayers, i,
                   layerCount, logs, results, progress, input, output>>

\* blob.arrayBuffer() resolves: push the result
ArrayBufferOk(m) ==
    /\ impl = "lib" /\ status = "running"
    /\ unit[m].pc = "arrayBuffer"
    /\ \E len \in {0, 1} : results' = Push(m, unit[m].fileName, len)
    /\ unit' = Finish(unit, m)
    /\ UNCHANGED <<impl, window, psd, status, thrown, stack, visibleLayers, i,
                   layerCount, logs, progress, input, output>>

\* blob.arrayBuffer() rejects: catch (error)
ArrayBufferFail(m) ==
    /\ impl = "lib" /\ status = "running"
    /\ unit[m].pc = "arrayBuffer"
    /\ logs' = Log("error")
    /\ unit' = Finish(unit, m)
    /\ UNCHANGED <<impl, window, psd, status, thrown, stack, visibleLayers, i,
                   layerCount, results, progress, input, output>>

\* the loop is over: completion log, return results
Return ==
    /\ impl = "lib" /\ status = "running" /\ NoPending
    /\ i = Len(visibleLayers)
    /\ status' = "done"
    /\ logs' = Log("summary")
    /\ UNCHANGED <<impl, window, psd, thrown, stack, visibleLayers, i, unit,
                   layerCount, results, progress, input, output>>

NextCli ==
    \/ ExtractFail
    \/ ExtractOk
    \/ ProcessReturn
    \/ ProcessGroup
    \/ ExportLayer
    \/ \E m \in 1..N : StreamEnd(m)
    \/ \E m \in 1..N : StreamError(m)
    \/ \E m \in 1..N : WriteOk(m)
    \/ \E m \in 1..N : WriteFail(m)
    \/ \E m \in 1..N : AltOk(m)
    \/ \E m \in 1..N : AltFail(m)

NextLib ==
    \/ ReadFail
    \/ ReadNoChildren
    \/ ReadOk
    \/ Iterate
    \/ \E m \in 1..N : BlobCallback(m)
    \/ \E m \in 1..N : ArrayBufferOk(m)
    \/ \E m \in 1..N : ArrayBufferFail(m)
    \/ Return

\* the psd.js script
SpecCli == InitCli /\ [][NextCli]_vars

\* the ag-psd class
SpecLib == InitLib /\ [][NextLib]_vars

(***************************************************************************)
(* sanitizeFilename on its own: every string up to MaxLen over Chars       *)
(***************************************************************************)
Chars == {"a", "/", " ", "_"}

Strings == UNION { [1..len -> Chars] : len \in 0..MaxLen }

InitSan ==
    /\ impl = "san"
    /\ window = FALSE
    /\ psd = <<>>
    /\ status = "init"
    /\ thrown = FALSE
    /\ stack = <<>>
    /\ visibleLayers = <<>>
    /\ i = 0
    /\ unit = <<>>
    /\ layerCount = 0
    /\ logs = [k \in LogKinds |-> 0]
    /\ results = <<>>
    /\ progress = <<>>
    /\ input \in Strings
    /\ output = <<>>

\* a name is sanitized
Sanitize ==
    /\ impl = "san" /\ status = "init"
    /\ output' = <<sanitizeFilename(input)>>
    /\ status' = "running"
    /\ UNCHANGED <<impl, window, psd, thrown, stack, visibleLayers, i, unit,
                   layerCount, logs, results, progress, input>>

\* the sanitized name is sanitized again
Resanitize ==
    /\ impl = "san" /\ status = "running"
    /\ output' = Append(output, sanitizeFilename(output[1]))
    /\ status' = "done"
    /\ UNCHANGED <<impl, window, psd, thrown, stack, visibleLayers, i, unit,
                   layerCount, logs, results, progress, input>>

NextSan == Sanitize \/ Resanitize

SpecSan == InitSan /\ [][NextSan]_vars

(***************************************************************************)
(* Vocabulary of the properties                                            *)
(***************************************************************************)
VisibleLayerNodes == {m \in 1..N : IsLayer(m) /\ ~psd[m].hidden}

HiddenLayerNodes == {m \in 1..N : IsLayer(m) /\ psd[m].hidden}

VisibleGroupNodes == {m \in 1..N : IsGroup(m) /\ ~psd[m].hidden}

\* files written (cli) or results returned (lib)
Successes == IF impl = "cli" THEN layerCount ELSE Len(results)

\* layers whose encoding failed and that no fallback saved
Failures == logs["pngError"] - logs["altOk"] + logs["error"]

\* layers whose primary encoding path threw
Throws == logs["pngError"] + logs["error"]

\* visible layers given up without an error (no data, empty data, no canvas)
LayerSkips ==
    IF impl = "cli" THEN logs["skip"]
    ELSE logs["skip"] - Cardinality({m \in VisibleGroupNodes : unit[m].pc = "done"})

Attempted(m) == unit[m].pc \notin {"new", "skipped"}

(***************************************************************************)
(* C1                                                                      *)
(***************************************************************************)
\* C1 as stated: when a cli run is over, successes plus failure records
\* equal the number of visible layers.
C1_ResultsEqualVisible ==
    (impl = "cli" /\ status = "done")
        => layerCount + Failures = Cardinality(VisibleLayerNodes)

\* C1 amended: when a cli run is over, every visible layer has exactly one
\* outcome among success, failure record and skip, so successes + failures
\* + skips equal the number of visible layers (successes + failures never
\* exceed it), and each hidden layer has only its hidden-skip log line.
C1_OutcomesEqualVisible ==
    (impl = "cli" /\ status = "done")
        => /\ layerCount + Failures + logs["skip"] = Cardinality(VisibleLayerNodes)
           /\ layerCount + Failures <= Cardinality(VisibleLayerNodes)
           /\ logs["hidden"] = Cardinality(HiddenLayerNodes)
           /\ \A m \in HiddenLayerNodes : unit[m].pc = "skipped"

C1_Witness ==
    /\ impl = "cli" /\ status = "done"
    /\ layerCount = 1 /\ logs["skip"] = 1 /\ logs["hidden"] = 1

(***************************************************************************)
(* C2                                                                      *)
(***************************************************************************)
\* C2 as stated: when exactly one layer's encoding throws and no other
\* visible layer is skipped, the finished run has N-1 successes and one
\* failure record.
C2_OneThrowOneFailure ==
    (status = "done" /\ Throws = 1 /\ LayerSkips = 0)
        => /\ Successes = Cardinality(VisibleLayerNodes) - 1
           /\ Failures = 1

\* C2 amended: no layer's error is surfaced to the caller; when exactly one
\* layer's encoding throws and no other visible layer is skipped, every
\* visible layer is still processed, and the run ends with N-1 successes
\* and one failure record if the fallback is absent or fails too, with N
\* successes and no failure record if the fallback saves the layer.
C2_FailureIsolated ==
    /\ thrown => (Throws = 0 /\ \A m \in 1..N : unit[m].pc = "new")
    /\ (status = "done" /\ Throws = 1 /\ LayerSkips = 0)
          => /\ \A m \in VisibleLayerNodes : unit[m].pc = "done"
             /\ IF logs["altOk"] = 0
                THEN /\ Successes = Cardinality(VisibleLayerNodes) - 1
                     /\ Failures = 1
                ELSE /\ Successes = Cardinality(VisibleLayerNodes)
                     /\ Failures = 0

C2_Witness ==
    /\ status = "done" /\ Throws = 1 /\ LayerSkips = 0
    /\ logs["altFail"] = 1
    /\ Cardinality(VisibleLayerNodes) = 3
    /\ Successes = 2

(***************************************************************************)
(* C3                                                                      *)
(***************************************************************************)
\* C3: a hidden layer is never exported (no file name, no result, its
\* export never starts), and when the run is over every layer has been
\* exported if and only if its own flag says it is visible, whatever the
\* flags of its ancestors.
C3_OwnVisibilityOnly ==
    \A m \in 1..N :
        IsLayer(m) =>
            /\ psd[m].hidden =>
                  /\ ~Attempted(m)
                  /\ unit[m].fileName = <<>>
                  /\ \A k \in 1..Len(results) : results[k].layer # m
            /\ status = "done" => (unit[m].pc = "done" <=> ~psd[m].hidden)

C3_Witness ==
    /\ status = "done"
    /\ \E g, m, h \in 1..N :
          /\ IsGroup(g) /\ psd[g].hidden
          /\ IsLayer(m) /\ psd[m].parent = g /\ ~psd[m].hidden
          /\ unit[m].pc = "done"
          /\ IsLayer(h) /\ psd[h].hidden /\ psd[h].parent = 0
          /\ ~Attempted(h)

(***************************************************************************)
(* C4                                                                      *)
(***************************************************************************)
\* sanitized names of the ancestor groups, root excluded, then of the layer
Components(m) ==
    [k \in 1..Len(Ancestors(m)) |-> sanitizeFilename(psd[Ancestors(m)[k]].name)]
    \o <<sanitizeFilename(psd[m].name)>>

RECURSIVE JoinUnderscore(_)
JoinUnderscore(parts) ==
    IF parts = <<>> THEN <<>>
    ELSE IF Len(parts) = 1 THEN parts[1]
    ELSE parts[1] \o <<"_">> \o JoinUnderscore(Tail(parts))

RECURSIVE DropLeadingEmpty(_)
DropLeadingEmpty(parts) ==
    IF parts # <<>> /\ Head(parts) = <<>> THEN DropLeadingEmpty(Tail(parts))
    ELSE parts

\* C4 as stated: the file name of an exported layer is all its sanitized
\* components joined with one underscore between consecutive components.
C4_NameIsJoin ==
    \A m \in 1..N :
        (impl = "cli" /\ IsLayer(m) /\ Attempted(m))
            => unit[m].fileName = JoinUnderscore(Components(m))

\* C4 amended: the file name of an exported layer is its sanitized
\* components joined with one underscore between consecutive components
\* after the leading components that sanitize to the empty string are
\* dropped; a layer directly under the root has its own sanitized name.
C4_NameIsJoinAfterLeadingEmpty ==
    \A m \in 1..N :
        (impl = "cli" /\ IsLayer(m) /\ Attempted(m))
            => /\ unit[m].fileName = JoinUnderscore(DropLeadingEmpty(Components(m)))
               /\ psd[m].parent = 0 => unit[m].fileName = sanitizeFilename(psd[m].name)

C4_Witness ==
    \E m \in 1..N :
        /\ impl = "cli" /\ IsLayer(m) /\ unit[m].pc = "done"
        /\ Len(Ancestors(m)) = 2
        /\ Components(m)[1] = <<>>
        /\ Components(m)[2] # <<>>
        /\ Components(m)[3] # <<>>

(***************************************************************************)
(* C5                                                                      *)
(***************************************************************************)
\* C5: sanitizing a sanitized name gives the same name.
C5_SanitizeIdempotent ==
    Len(output) = 2 => output[2] = output[1]

C5_Witness ==
    /\ Len(output) = 2
    /\ output[1] # input
    /\ output[1] # <<>>
    /\ \E a, b, c \in 1..Len(input) :
          input[a] \in Forbidden /\ input[b] \in Whitespace /\ input[c] = "_"

(***************************************************************************)
(* C6                                                                      *)
(***************************************************************************)
\* C6: the progress events of a finished lib run are (1,N), ..., (N,N)
\* with N the number of visible Layer nodes.
C6_ProgressCountsLayers ==
    (impl = "lib" /\ status = "done")
        => progress = [k \in 1..Cardinality(VisibleLayerNodes) |->
                          <<k, Cardinality(VisibleLayerNodes)>>]

(***************************************************************************)
(* C7                                                                      *)
(***************************************************************************)
NodePath(m) == Append(Ancestors(m), m)

\* a comes before b in depth-first pre-order: a is an ancestor of b, or
\* where their paths from the root part, a's branch is stored first
PreBefore(a, b) ==
    LET pa == NodePath(a)
        pb == NodePath(b)
    IN  \/ Len(pa) < Len(pb) /\ SubSeq(pb, 1, Len(pa)) = pa
        \/ \E k \in 1..Len(pa) :
              /\ k <= Len(pb)
              /\ SubSeq(pa, 1, k - 1) = SubSeq(pb, 1, k - 1)
              /\ pa[k] < pb[k]

\* C7: the result list is in depth-first pre-order: one entry comes before
\* another exactly when its layer comes first in the pre-order.
C7_ResultsInPreOrder ==
    \A j, k \in 1..Len(results) :
        j < k <=> PreBefore(results[j].layer, results[k].layer)

C7_Witness ==
    /\ impl = "lib" /\ status = "done"
    /\ Len(results) = 2
    /\ psd[results[1].layer].parent # 0
    /\ psd[results[2].layer].parent = 0

(***************************************************************************)
(* C8                                                                      *)
(***************************************************************************)
\* C8: an error reaches the caller exactly when the document could not be
\* loaded, and then no layer was exported, no progress event emitted and
\* no result produced; a run in which a layer failed or was skipped has
\* not been ended by it.
C8_OnlySourceFailureHalts ==
    /\ thrown <=> status = "fatal"
    /\ logs["fatal"] > 0 => status = "fatal"
    /\ status = "fatal" =>
          /\ \A m \in 1..N : unit[m].pc = "new"
          /\ layerCount = 0 /\ results = <<>> /\ progress = <<>>
          /\ stack = <<>> /\ i = 0
          /\ \A k \in LogKinds \ {"fatal"} : logs[k] = 0
    /\ (Throws > 0 \/ logs["skip"] > 0 \/ logs["altFail"] > 0)
          => status \in {"running", "done"}

C8_Witness ==
    /\ status = "fatal" /\ thrown
    /\ logs["fatal"] = 1
    /\ VisibleLayerNodes # {}

(***************************************************************************)
(* C9                                                                      *)
(***************************************************************************)
\* C9: zero-length encoded output is never written and never added to the
\* results.
C9_EmptyOutputIsSkipped ==
    /\ \A m \in 1..N : unit[m].pc = "write" => unit[m].len > 0
    /\ \A k \in 1..Len(results) : results[k].pngBuffer > 0

(***************************************************************************)
(* C10                                                                     *)
(***************************************************************************)
\* C10: at most one export is in flight, and while one is in flight no
\* other unit starts or changes, no progress event is emitted and the
\* traversal does not move on.
C10_StrictlySequential ==
    [][ /\ Cardinality(Pending) <= 1
        /\ Cardinality(Pending') <= 1
        /\ Pending # {} =>
              /\ \A m \in 1..N : m \notin Pending => unit'[m] = unit[m]
              /\ progress' = progress
              /\ i' = i
              /\ stack' = stack ]_vars

C10_Witness ==
    \E a, b, c \in 1..N :
        /\ unit[a].pc = "done"
        /\ unit[b].pc \in {"stream", "write", "alt", "blob", "arrayBuffer"}
        /\ unit[c].pc = "new"
        /\ IsLayer(c) /\ ~psd[c].hidden

(***************************************************************************)
(* C11                                                                     *)
(***************************************************************************)
\* C11: a run is never left waiting: as long as it has neither completed
\* nor failed to load, some step of it can still be taken, and a completed
\* run has emitted its completion summary.
C11_RunNeverBlocked ==
    /\ status \in {"init", "running"} => ENABLED NextLib
    /\ status = "done" => logs["summary"] = 1
====
